---- MODULE Spec2Model ----
(***************************************************************************)
(* WaveFlow (src/waveflow/modules.py): the time-axis permutations, the     *)
(* causal gated residual blocks, the residual stack in its parallel        *)
(* (forward) and streaming (arTransform) evaluation, and the three public  *)
(* passes of the model (forward, synthesize, synthesize_fast).             *)
(*                                                                         *)
(* A tensor B x C x H x W is modelled by its time axis (dimension 2): a    *)
(* sequence of H rows, one value per row, for one batch element (all are   *)
(* treated alike), one channel and a width of 1; its batch and width       *)
(* extents are carried separately as a shape [b, w].  Row values live in   *)
(* the integers modulo FieldP; tanh, sigmoid and ReLU are fixed nonlinear  *)
(* maps of that ring and exp is a homomorphism from (Int, +) into its      *)
(* units, so that exp(a + b) = exp(a) * exp(b) and exp(-a) = 1 / exp(a)    *)
(* hold exactly.                                                           *)
(***************************************************************************)
EXTENDS Integers, Sequences, FiniteSets, TLC

VARIABLES
    hp,                     \* hparams: kernel_size, cycle_size, n_layer, n_flow, h
    params,                 \* the learned weights (a seed that fixes every weight)
    first_conv_padding,     \* per flow: first_conv.padding[0]
    initial_conv_padding,   \* per flow, per block: initial_conv.padding[0]
    cache,                  \* per flow: << >> (None) or one CircularTensor per block
    frame,                  \* the locals of the call in progress
    result,                 \* what the last call returned, once it has
    ncalls                  \* number of public calls made so far

instance == << first_conv_padding, initial_conv_padding, cache >>
vars == << hp, params, first_conv_padding, initial_conv_padding, cache,
           frame, result, ncalls >>

---------------------------------------------------------------------------
(* Bounds of the model *)

FieldP == 7         \* row values are integers modulo FieldP
MaxKernel == 3      \* hp.kernel_size in 2..MaxKernel
MaxCycle == 2       \* hp.cycle_size in 1..MaxCycle
MaxLayer == 2       \* hp.n_layer in 1..MaxLayer
MaxFlow == 6        \* hp.n_flow in 1..MaxFlow
MaxH == 4           \* hp.h (time rows) even, in 2..MaxH
MaxCalls == 2       \* public calls per behaviour
NSeeds == 1         \* weight settings
NArgs == 3          \* argument lists a call may be given
MaxLen == 5         \* length of the signals handed to the flips alone
NVals == 3          \* row values of the signals drawn for one function alone
MaxRF == 4          \* receptive field of a cache exercised alone
MaxKernelAlone == 5 \* hp.kernel_size of a stack evaluated alone, odd, in 3..MaxKernelAlone
MaxPush == 5        \* pushes into a cache exercised alone

(* Program constants *)

LogvarMax == 10     \* torch.clamp(logvar, max=10)
FwdFlipSwitch == 4  \* forward: full_flip "if i < 4", else half_flip
InvFlipSwitch == 4  \* inverse passes: full_flip "if i > 4", else half_flip
FirstConvTrim == 3  \* self.first_conv(x)[:,:,:-3,:]
FirstConvPad == 2   \* nn.Conv2d(..., (2,1), padding=(2,0))

---------------------------------------------------------------------------
(* Arithmetic of the value ring *)

Err == << -1 >>     \* a raised exception, in place of a tensor
IsErr(t) == t = Err

Min(a, b) == IF a < b THEN a ELSE b

\* a local name for a value: Bind(v, LAMBDA n : e) is e with n standing for v
Bind(val, Body(_)) == Body(val)

RECURSIVE Pow(_, _)
Pow(g, n) == IF n = 0 THEN 1 % FieldP ELSE (g * Pow(g, n - 1)) % FieldP

ExpOrder == CHOOSE n \in 1..FieldP : Pow(3, n) = 1 % FieldP /\ \A m \in 1..(n - 1) : Pow(3, m) # 1 % FieldP

Exp(l) == Pow(3, l % ExpOrder)                                    \* torch.exp(l)
ExpNeg(l) == CHOOSE b \in 0..(FieldP - 1) : (b * Exp(l)) % FieldP = 1 % FieldP   \* torch.exp(-l)

Tanh(v) == (v * v * v * v * v) % FieldP
Sigmoid(v) == (v * v + 1) % FieldP
ReLU(v) == IF v <= FieldP \div 2 THEN v ELSE 0

Zeros(n) == [j \in 1..n |-> 0]
Flip(x) == [j \in 1..Len(x) |-> x[Len(x) + 1 - j]]               \* torch.flip(x, (2,))

---------------------------------------------------------------------------
(* full_flip, half_flip *)

full_flip(x) == Flip(x)

\* torch.split(x, size, 2) raises when size is 0 and the axis is not empty
split_fails(x, size) == size = 0 /\ Len(x) > 0

\* torch.split(x, size, 2): chunks of size rows, the last one shorter
torch_split(x, size) ==
    IF size = 0 THEN << x >>
    ELSE [n \in 1..((Len(x) + size - 1) \div size) |->
            SubSeq(x, (n - 1) * size + 1, Min(n * size, Len(x)))]

\* a half flip that splits at the middle whatever the length
half_flip_uneven(x) ==
    Flip(SubSeq(x, 1, Len(x) \div 2)) \o Flip(SubSeq(x, Len(x) \div 2 + 1, Len(x)))

half_flip(x) ==
    LET size == Len(x) \div 2
    IN  IF split_fails(x, size) THEN Err
        ELSE LET parts == torch_split(x, size)
             IN  IF Len(parts) # 2 THEN Err      \* "x1,x2 = ..." unpacks two chunks
                 ELSE Flip(parts[1]) \o Flip(parts[2])

---------------------------------------------------------------------------
(* Convolution along the time axis, slicing, broadcasting *)

RECURSIVE TapSum(_, _, _, _, _)
TapSum(xp, w, d, t, j) ==
    IF j = 0 THEN 0
    ELSE (w[j] * xp[t + (j - 1) * d] + TapSum(xp, w, d, t, j - 1)) % FieldP

\* nn.Conv2d on the time axis: Len(w) taps, dilation d, zero padding p at both ends
Conv(x, w, d, p) ==
    Bind(Zeros(p) \o x \o Zeros(p), LAMBDA xp :
        IF Len(x) = 0 \/ Len(xp) - (Len(w) - 1) * d < 1 THEN Err
        ELSE [t \in 1..(Len(xp) - (Len(w) - 1) * d) |-> TapSum(xp, w, d, t, Len(w))])

\* x[:,:,:-n,:]  (Python reads -0 as 0: nothing is kept)
DropLast(x, n) == IF n = 0 \/ n >= Len(x) THEN << >> ELSE SubSeq(x, 1, Len(x) - n)

\* the time extent of a + b under broadcasting, -1 when the shapes do not broadcast
BroadcastLen(a, b) ==
    IF Len(a) = Len(b) THEN Len(a)
    ELSE IF Len(a) = 1 THEN Len(b)
    ELSE IF Len(b) = 1 THEN Len(a)
    ELSE -1

At(a, t) == IF Len(a) = 1 THEN a[1] ELSE a[t]

---------------------------------------------------------------------------
(* Parameters: every weight is fixed by the seed, the flow, the layer and   *)
(* its place n in the layer; none is zero or -1.                            *)

Weight(p, f, l, n) == 1 + ((p * (n + 1) + f + 2 * l + 3 * n) % (FieldP - 2))

RECURSIVE Pow2(_)
Pow2(n) == IF n = 0 THEN 1 ELSE 2 * Pow2(n - 1)

\* ResidualBlock.__init__ for block l (from 0) of flow f (from 0):
\* dilation 2**(l % cycle_size), padding_h = total_size - 1
ResidualBlock(h, p, f, l) ==
    [ dilation  |-> Pow2(l % h.cycle_size),
      padding_h |-> ((h.kernel_size - 1) * Pow2(l % h.cycle_size) + 1) - 1,
      conv_a    |-> [j \in 1..h.kernel_size |-> Weight(p, f, l, j)],
      conv_b    |-> [j \in 1..h.kernel_size |-> Weight(p, f, l, h.kernel_size + j)],
      cdt_a     |-> Weight(p, f, l, 2 * h.kernel_size + 1),
      cdt_b     |-> Weight(p, f, l, 2 * h.kernel_size + 2),
      resconv   |-> Weight(p, f, l, 2 * h.kernel_size + 3),
      skipconv  |-> Weight(p, f, l, 2 * h.kernel_size + 4) ]

\* ResidualStack.__init__ for flow f (from 0)
ResidualStack(h, p, f) ==
    [ first_conv  |-> << Weight(p, f, h.n_layer, 1), Weight(p, f, h.n_layer, 2) >>,
      stack       |-> [b \in 1..h.n_layer |-> ResidualBlock(h, p, f, b - 1)],
      last_1      |-> Weight(p, f, h.n_layer, 3),
      last_mean   |-> Weight(p, f, h.n_layer, 4),
      last_logvar |-> Weight(p, f, h.n_layer, 5) ]

---------------------------------------------------------------------------
(* ResidualBlock.forward *)

\* a block that leaves its padding as constructed
BlockPaddingKept(pad, incremental) == pad

\* self.initial_conv.padding[0] after the call: streaming use zeroes it
BlockPadding(pad, incremental) == IF incremental /\ pad # 0 THEN 0 ELSE pad

\* a block that trims the leading rows: x[:,:,padding_h:,:]
BlockTrimLeading(y, padding_h, incremental) ==
    IF incremental THEN y ELSE SubSeq(y, padding_h + 1, Len(y))

\* the rows of initial_conv's output the block keeps
BlockTrim(y, padding_h, incremental) == IF incremental THEN y ELSE DropLast(y, padding_h)

\* the residual the block adds back: the last row of its input when streaming
BlockResidual(x, incremental) == IF incremental THEN << x[Len(x)] >> ELSE x

\* torch.tanh(xa + ca) * torch.sigmoid(xb + cb), ca and cb from cdtconv(c)
Gate(blk, xa, xb, c) ==
    [t \in 1..BroadcastLen(xa, c) |->
        (Tanh((At(xa, t) + blk.cdt_a * At(c, t)) % FieldP)
         * Sigmoid((At(xb, t) + blk.cdt_b * At(c, t)) % FieldP)) % FieldP]

\* returns [res, skp, padding]; res = skp = Err when the call raises
ResidualBlock_forward(blk, pad, x, c, incremental) ==
    Bind(BlockPadding(pad, incremental), LAMBDA newpad :
    Bind(Conv(x, blk.conv_a, blk.dilation, newpad), LAMBDA ya :
    Bind(Conv(x, blk.conv_b, blk.dilation, newpad), LAMBDA yb :
        IF IsErr(ya) THEN [res |-> Err, skp |-> Err, padding |-> newpad]
        ELSE
    Bind(BlockTrim(ya, blk.padding_h, incremental), LAMBDA xa :
    Bind(BlockTrim(yb, blk.padding_h, incremental), LAMBDA xb :
        IF BroadcastLen(xa, c) < 0 THEN [res |-> Err, skp |-> Err, padding |-> newpad]
        ELSE
    Bind(Gate(blk, xa, xb, c), LAMBDA g :
    Bind(BlockResidual(x, incremental), LAMBDA r :
        IF BroadcastLen(g, r) < 0 THEN [res |-> Err, skp |-> Err, padding |-> newpad]
        ELSE [res |-> [t \in 1..BroadcastLen(g, r) |->
                          (blk.resconv * At(g, t) + At(r, t)) % FieldP],
              skp |-> [t \in 1..Len(g) |-> (blk.skipconv * g[t]) % FieldP],
              padding |-> newpad])))))))

\* self.last_convs(x), split into (mean, logvar); logvar is an exponent, an integer
LastConvs(net, x) ==
    Bind([t \in 1..Len(x) |-> ReLU((net.last_1 * ReLU(x[t])) % FieldP)], LAMBDA y :
        [mean   |-> [t \in 1..Len(x) |-> (net.last_mean * y[t]) % FieldP],
         logvar |-> [t \in 1..Len(x) |-> net.last_logvar * y[t]]])

\* sum(skp_list), one term at a time
AddSkip(acc, skp) ==
    IF BroadcastLen(acc, skp) < 0 THEN Err
    ELSE [t \in 1..BroadcastLen(acc, skp) |-> (At(acc, t) + At(skp, t)) % FieldP]

---------------------------------------------------------------------------
(* ResidualStack.forward: the parallel evaluation *)

\* the loop over self.stack from block b on; acc is the sum of the skips so far
\* and ins the input each block was given
RECURSIVE ParallelBlocks(_, _, _, _, _, _, _)
ParallelBlocks(net, pads, b, res, c, acc, ins) ==
    IF b > Len(net.stack) THEN [skp |-> acc, ins |-> ins]
    ELSE Bind(ResidualBlock_forward(net.stack[b], pads[b], res, c, FALSE), LAMBDA o :
            IF IsErr(o.res) THEN [skp |-> Err, ins |-> ins]
            ELSE Bind(IF b = 1 THEN o.skp ELSE AddSkip(acc, o.skp), LAMBDA sum :
                    IF IsErr(sum) THEN [skp |-> Err, ins |-> ins]
                    ELSE ParallelBlocks(net, pads, b + 1, o.res, c, sum, Append(ins, res))))

FailedOutput == [mean |-> Err, logvar |-> Err, ins |-> << >>]

TanhRows(y) == [t \in 1..Len(y) |-> Tanh(y[t])]

\* returns [mean, logvar, ins]: the two halves of the output, both Err when the
\* call raises, and the input each block was given
ResidualStack_forward(net, fpad, pads, x, c) ==
    Bind(Conv(x, net.first_conv, 1, fpad), LAMBDA y :
        IF IsErr(y) THEN FailedOutput
        ELSE Bind(ParallelBlocks(net, pads, 1, TanhRows(DropLast(y, FirstConvTrim)), c,
                                 << >>, << >>),
                  LAMBDA p : IF IsErr(p.skp) THEN FailedOutput
                             ELSE [ins |-> p.ins] @@ LastConvs(net, p.skp)))

---------------------------------------------------------------------------
(* fast_utils.CircularTensor: a ring buffer along the time axis with a     *)
(* write cursor idx.                                                        *)

CircularTensor(tensor, shape) == [tensor |-> tensor, idx |-> 0, shape |-> shape]

\* push: write at the cursor, advance the cursor modulo the buffer length
set_current(ct, v) ==
    [ct EXCEPT !.tensor[ct.idx + 1] = v, !.idx = (ct.idx + 1) % Len(ct.tensor)]

\* window: the buffer in temporal order, oldest row first
window(ct) ==
    [j \in 1..Len(ct.tensor) |-> ct.tensor[((ct.idx + j - 1) % Len(ct.tensor)) + 1]]

---------------------------------------------------------------------------
(* ResidualStack.arTransform: the streaming evaluation *)

\* a step that reads the cache before writing to it
PushReadStale(ct, v) == [ct |-> set_current(ct, v), res |-> window(ct)]

\* "self.cache[i].set_current(res[:,:,-1,:]); res = self.cache[i]()"
PushRead(ct, v) ==
    Bind(set_current(ct, v), LAMBDA pushed : [ct |-> pushed, res |-> window(pushed)])

\* a resumed synthesis that keeps the rows of the previous one
ResetCacheStale(cs) == cs

\* "RESUMED SYNTHESIS, RESET CACHE": self.cache[i].tensor.zero_()
ResetCache(cs) == [b \in 1..Len(cs) |-> [cs[b] EXCEPT !.tensor = Zeros(Len(cs[b].tensor))]]

\* "FIRST SYNTHESIS": one zero CircularTensor per block, of the input's batch and width
AllocCache(net, shape) ==
    [b \in 1..Len(net.stack) |->
        CircularTensor(Zeros((Len(net.stack[b].conv_a) - 1) * net.stack[b].dilation + 1), shape)]

\* "if self.cache is None: ... else: ...": returns [first_pad, cache]
PrepareCache(net, fpad, cs, shape) ==
    IF cs = << >>
    THEN [first_pad |-> 0, cache |-> AllocCache(net, shape)]
    ELSE [first_pad |-> fpad, cache |-> ResetCache(cs)]

\* a step that reads one row too late: z[:,:,step+1:step+3,:]
StepInputLate(zp, step) == << zp[step + 2], zp[step + 3] >>

\* the rows of the padded z that step reads: z[:,:,step:step+2,:]
StepInput(zp, step) == << zp[step + 1], zp[step + 2] >>

\* the loop over self.stack of one step; s = [cache, pads, res, acc, fed, err]
RECURSIVE StreamBlocks(_, _, _, _, _)
StreamBlocks(net, s, b, c_in, shape) ==
    IF b > Len(net.stack) \/ s.err THEN s
    ELSE IF s.cache[b].shape # shape THEN [s EXCEPT !.err = TRUE]
    ELSE Bind(PushRead(s.cache[b], s.res[Len(s.res)]), LAMBDA pr :
         Bind(ResidualBlock_forward(net.stack[b], s.pads[b], pr.res, c_in, TRUE), LAMBDA o :
            StreamBlocks(net,
                [ cache |-> [s.cache EXCEPT ![b] = pr.ct],
                  pads  |-> [s.pads EXCEPT ![b] = o.padding],
                  res   |-> o.res,
                  acc   |-> IF IsErr(o.res) THEN Err
                            ELSE IF b = 1 THEN o.skp ELSE AddSkip(s.acc, o.skp),
                  fed   |-> Append(s.fed, pr.res),
                  err   |-> IsErr(o.res) ],
                b + 1, c_in, shape)))

\* "z[:,:,step+2,:] = (z[:,:,step+2,:] - mean[:,:,-1,:]) * torch.exp(-logvar[:,:,-1,:])"
ArUpdate(a, s, step, o) ==
    [ z     |-> [a.z EXCEPT ![step + 3] =
                    ((@ - o.mean[Len(o.mean)]) * ExpNeg(o.logvar[Len(o.logvar)])) % FieldP],
      cache |-> s.cache,
      pads  |-> s.pads,
      fed   |-> Append(a.fed, s.fed),
      used  |-> Append(a.used, << o.mean[Len(o.mean)], o.logvar[Len(o.logvar)] >>),
      err   |-> FALSE ]

\* the body of "for step in range(hp.h)"; a = [z, cache, pads, fed, used, err]
ArStep(net, fpad, a, c, step, shape) ==
    Bind(Conv(StepInput(a.z, step), net.first_conv, 1, fpad), LAMBDA y :
        IF IsErr(y) THEN [a EXCEPT !.err = TRUE]
        ELSE Bind(StreamBlocks(net,
                      [cache |-> a.cache, pads |-> a.pads, res |-> TanhRows(y),
                       acc |-> << >>, fed |-> << >>, err |-> FALSE],
                      1, << c[step + 1] >>, shape),
                  LAMBDA s :
                      IF s.err \/ IsErr(s.acc)
                      THEN [a EXCEPT !.cache = s.cache, !.pads = s.pads, !.err = TRUE]
                      ELSE ArUpdate(a, s, step, LastConvs(net, s.acc))))

RECURSIVE ArSteps(_, _, _, _, _, _, _)
ArSteps(net, fpad, a, c, step, h, shape) ==
    IF step >= h \/ a.err THEN a
    ELSE ArSteps(net, fpad, ArStep(net, fpad, a, c, step, shape), c, step + 1, h, shape)

\* returns [z, first_pad, prepared, cache, pads, fed, used, err]: the transformed z
\* (Err when the call raises), the cache as the loop found it (prepared), the state
\* the call leaves in the stack, and what each step fed to each block (fed) and
\* used to update its row (used)
arTransform(net, fpad, pads, cs, z, c, h, shape) ==
    Bind(PrepareCache(net, fpad, cs, shape), LAMBDA pc :
    Bind(ArSteps(net, pc.first_pad,
                 [z |-> << 0, 0 >> \o z, cache |-> pc.cache, pads |-> pads,
                  fed |-> << >>, used |-> << >>, err |-> FALSE],
                 c, 0, h, shape),
         LAMBDA a :
            [ z         |-> IF a.err THEN Err ELSE SubSeq(a.z, 3, Len(a.z)),
              first_pad |-> pc.first_pad,
              prepared  |-> pc.cache,
              cache     |-> a.cache,
              pads      |-> a.pads,
              fed       |-> a.fed,
              used      |-> a.used,
              err       |-> a.err ]))

---------------------------------------------------------------------------
(* WaveFlow: the instance *)

\* self.flows: flow f (from 1) is ResidualStack number f - 1
Flows == [f \in 1..hp.n_flow |-> ResidualStack(hp, params, f - 1)]

\* the padding every convolution is constructed with
ConstructionFirstPad == [f \in 1..hp.n_flow |-> FirstConvPad]
ConstructionBlockPad ==
    [f \in 1..hp.n_flow |-> [b \in 1..hp.n_layer |-> Flows[f].stack[b].padding_h]]

---------------------------------------------------------------------------
(* WaveFlow.forward *)

\* the permutation forward applies after flow i (from 0)
ForwardPerm(i, x) == IF i < FwdFlipSwitch THEN full_flip(x) ELSE half_flip(x)

\* torch.clamp(logvar, max=10)
Clamp(logvar) == [t \in 1..Len(logvar) |-> Min(logvar[t], LogvarMax)]

\* the composition and the update of one flow, given its mean and clamped logvar
ForwardUpdate(s, i, mean, logvar) ==
    Bind(ForwardPerm(i, [t \in 1..Len(s.x) |->
                            (Exp(At(logvar, t)) * s.x[t] + At(mean, t)) % FieldP]),
         LAMBDA px :
    Bind(ForwardPerm(i, s.c), LAMBDA pc :
        IF IsErr(px) \/ IsErr(pc) THEN [s EXCEPT !.err = TRUE]
        ELSE [ x |-> px,
               c |-> pc,
               global_mean |->
                   IF s.global_mean # << >>
                   THEN [t \in 1..Len(s.x) |->
                           (At(s.global_mean, t) * Exp(At(logvar, t)) + At(mean, t)) % FieldP]
                   ELSE mean,
               global_logvar |->
                   IF s.global_mean # << >>
                   THEN [t \in 1..Len(s.x) |-> At(s.global_logvar, t) + At(logvar, t)]
                   ELSE logvar,
               err |-> FALSE ]))

\* one iteration of "for i,flow in enumerate(self.flows)";
\* s = [x, c, global_mean, global_logvar, err], global_mean = << >> for None
ForwardFlow(s, i, fpads, bpads) ==
    Bind(ResidualStack_forward(Flows[i + 1], fpads[i + 1], bpads[i + 1], s.x, s.c), LAMBDA o :
        IF IsErr(o.mean) \/ BroadcastLen(o.mean, s.x) # Len(s.x) \/ Len(s.x) = 0
        THEN [s EXCEPT !.err = TRUE]
        ELSE ForwardUpdate(s, i, o.mean, Clamp(o.logvar)))

ForwardStart(x, c) ==
    [x |-> x, c |-> c, global_mean |-> << >>, global_logvar |-> << >>, err |-> FALSE]

RECURSIVE ForwardLoop(_, _, _, _)
ForwardLoop(s, i, fpads, bpads) ==
    IF i >= hp.n_flow \/ s.err THEN s
    ELSE ForwardLoop(ForwardFlow(s, i, fpads, bpads), i + 1, fpads, bpads)

\* forward(x, c, squeezed=True) as a whole
WaveFlow_forward(x, c, fpads, bpads) == ForwardLoop(ForwardStart(x, c), 0, fpads, bpads)

---------------------------------------------------------------------------
(* WaveFlow.synthesize and WaveFlow.synthesize_fast *)

\* the permutation the inverse passes apply before flow number i of self.flows[::-1]
InversePerm(i, x) == IF i > InvFlipSwitch THEN full_flip(x) ELSE half_flip(x)

\* self.flows[::-1]: the i-th flow visited (i from 0) is flow hp.n_flow - i (from 1)
Reversed(i) == hp.n_flow - i

\* the zero-padded rows initial_conv reads for its output row t
ConvWindow(x, blk, pad, t) ==
    SubSeq(Zeros(pad) \o x \o Zeros(pad), t, t + (Len(blk.conv_a) - 1) * blk.dilation)

\* for each block, the window its initial_conv reads for output row t, given the
\* input ins[b] of each block
ParallelWindows(net, pads, ins, t) ==
    [b \in 1..Len(net.stack) |-> ConvWindow(ins[b], net.stack[b], pads[b], t)]

\* "z[:,:,step,:] = (z[:,:,step,:] - mean[:,:,-1,:]) * torch.exp(-logvar[:,:,-1,:])"
SynthesizeUpdate(net, pads, a, step, o) ==
    IF IsErr(o.mean) \/ Len(o.mean) = 0 THEN [a EXCEPT !.err = TRUE]
    ELSE [ z    |-> [a.z EXCEPT ![step + 1] =
                       ((@ - o.mean[Len(o.mean)]) * ExpNeg(o.logvar[Len(o.logvar)])) % FieldP],
           fed  |-> Append(a.fed, ParallelWindows(net, pads, o.ins, step + 1)),
           used |-> Append(a.used, << o.mean[Len(o.mean)], o.logvar[Len(o.logvar)] >>),
           err  |-> FALSE ]

\* the body of "for step in range(hp.h)" of synthesize; a = [z, fed, used, err]
SynthesizeStep(net, fpad, pads, a, c, step) ==
    SynthesizeUpdate(net, pads, a, step,
        ResidualStack_forward(net, fpad, pads, SubSeq(a.z, 1, step + 1), SubSeq(c, 1, step + 1)))

RECURSIVE SynthesizeSteps(_, _, _, _, _, _)
SynthesizeSteps(net, fpad, pads, a, c, step) ==
    IF step >= hp.h \/ a.err THEN a
    ELSE SynthesizeSteps(net, fpad, pads, SynthesizeStep(net, fpad, pads, a, c, step), c, step + 1)

\* one iteration of "for i,flow in enumerate(self.flows[::-1])" of synthesize
SynthesizeFlow(z, c, i, fpads, bpads) ==
    Bind(InversePerm(i, z), LAMBDA pz :
    Bind(InversePerm(i, c), LAMBDA pc :
        IF IsErr(pz) \/ IsErr(pc)
        THEN [z |-> Err, c |-> c, zin |-> z, fed |-> << >>, used |-> << >>, err |-> TRUE]
        ELSE Bind(SynthesizeSteps(Flows[Reversed(i)], fpads[Reversed(i)], bpads[Reversed(i)],
                                  [z |-> pz, fed |-> << >>, used |-> << >>, err |-> FALSE], pc, 0),
                  LAMBDA a :
                      [z |-> IF a.err THEN Err ELSE a.z, c |-> pc, zin |-> pz,
                       fed |-> a.fed, used |-> a.used, err |-> a.err])))

RECURSIVE SynthesizeLoop(_, _, _, _, _)
SynthesizeLoop(z, c, i, fpads, bpads) ==
    IF i >= hp.n_flow THEN z
    ELSE Bind(SynthesizeFlow(z, c, i, fpads, bpads), LAMBDA r :
            IF r.err THEN Err ELSE SynthesizeLoop(r.z, r.c, i + 1, fpads, bpads))

\* synthesize as a whole, from the noise z (already scaled by temp)
WaveFlow_synthesize(z, c, fpads, bpads) == SynthesizeLoop(z, c, 0, fpads, bpads)

\* one iteration of "for i,flow in enumerate(self.flows[::-1])" of synthesize_fast:
\* the permutation, then flow.arTransform(z, c)
SynthFastFlow(z, c, i, fpads, bpads, caches, shape) ==
    Bind(InversePerm(i, z), LAMBDA pz :
    Bind(InversePerm(i, c), LAMBDA pc :
    Bind(arTransform(Flows[Reversed(i)], fpads[Reversed(i)], bpads[Reversed(i)],
                     caches[Reversed(i)], pz, pc, hp.h, shape),
         LAMBDA r :
            [ z |-> r.z, c |-> pc, zin |-> pz, fed |-> r.fed, used |-> r.used, err |-> r.err,
              prepared             |-> r.prepared,
              first_conv_padding   |-> [fpads EXCEPT ![Reversed(i)] = r.first_pad],
              initial_conv_padding |-> [bpads EXCEPT ![Reversed(i)] = r.pads],
              cache                |-> [caches EXCEPT ![Reversed(i)] = r.cache] ])))

RECURSIVE SynthFastLoop(_, _, _, _, _, _, _)
SynthFastLoop(z, c, i, fpads, bpads, caches, shape) ==
    IF i >= hp.n_flow THEN z
    ELSE Bind(SynthFastFlow(z, c, i, fpads, bpads, caches, shape), LAMBDA r :
            IF r.err THEN Err
            ELSE SynthFastLoop(r.z, r.c, i + 1, r.first_conv_padding,
                               r.initial_conv_padding, r.cache, shape))

\* synthesize_fast as a whole, from the noise z (already scaled by temp)
WaveFlow_synthesize_fast(z, c, fpads, bpads, caches, shape) ==
    SynthFastLoop(z, c, 0, fpads, bpads, caches, shape)

---------------------------------------------------------------------------
(* The instance and its public operations *)

\* hparams; an odd kernel_size keeps the width of every block's output
\* (padding_w = total_size // 2), and a cycle_size above n_layer gives the
\* dilations of cycle_size = n_layer
HParams ==
    { p \in [ kernel_size : {k \in 3..MaxKernel : k % 2 = 1}, cycle_size : 1..MaxCycle,
               n_layer : 1..MaxLayer, n_flow : 1..MaxFlow, h : {n \in 2..MaxH : n % 2 = 0} ] :
        p.cycle_size <= p.n_layer }

\* the n-th argument list: a signal of h rows (the audio x of forward, the draw of
\* torch.randn of the inverse passes), a temperature, a conditioning of h rows, and
\* the batch and width extents of both; only the last list has a batch of 2
Arg(n, h) ==
    [ x     |-> [t \in 1..h |-> (n + t * t) % FieldP],
      temp  |-> 1 + (n % 2),
      c     |-> [t \in 1..h |-> (n * t) % FieldP],
      shape |-> [b |-> IF n = NArgs THEN 2 ELSE 1, w |-> 1] ]

CallArgs == { Arg(n, hp.h) : n \in 1..NArgs }

IdleFrame == [op |-> "idle"]
NoResult == [op |-> "none", raised |-> FALSE, args |-> << >>, out |-> << >>, aux |-> << >>]

\* WaveFlow.__init__
Constructed ==
    /\ first_conv_padding = ConstructionFirstPad
    /\ initial_conv_padding = ConstructionBlockPad
    /\ cache = [f \in 1..hp.n_flow |-> << >>]
    /\ frame = IdleFrame
    /\ result = NoResult
    /\ ncalls = 0

Init ==
    /\ hp \in HParams
    /\ params \in 1..NSeeds
    /\ Constructed

CanCall == frame.op = "idle" /\ ncalls < MaxCalls

Raise(op, args, aux) ==
    /\ frame' = IdleFrame
    /\ result' = [op |-> op, raised |-> TRUE, args |-> args, out |-> Err, aux |-> aux]

\* forward(x, c, squeezed=True), and the forward that loss(x, c) starts
ForwardBegin ==
    /\ CanCall
    /\ \E a \in CallArgs, loss \in BOOLEAN :
          frame' = [op |-> "forward", name |-> IF loss THEN "loss" ELSE "forward", args |-> a,
                    i |-> 0, s |-> ForwardStart(a.x, a.c)]
    /\ ncalls' = ncalls + 1
    /\ result' = NoResult
    /\ UNCHANGED << hp, params, instance >>

ForwardAdvance(s) ==
    IF s.err THEN Raise(frame.name, frame.args, << >>)
    ELSE /\ frame' = [frame EXCEPT !.s = s, !.i = @ + 1]
         /\ UNCHANGED result

\* one flow of forward's loop
ForwardIter ==
    /\ frame.op = "forward" /\ frame.i < hp.n_flow
    /\ ForwardAdvance(ForwardFlow(frame.s, frame.i, first_conv_padding, initial_conv_padding))
    /\ UNCHANGED << hp, params, instance, ncalls >>

RECURSIVE SumRows(_, _)
SumRows(x, n) == IF n = 0 THEN 0 ELSE x[n] + SumRows(x, n - 1)

\* torch.mean(z ** 2 - logvar), as its numerator and its denominator
Loss(z, logvar) ==
    [sum |-> SumRows([t \in 1..Len(z) |-> ((z[t] * z[t]) % FieldP) - logvar[t]], Len(z)),
     n   |-> Len(z)]

\* "return x, global_mean, global_logvar", and loss's return
ForwardReturn ==
    /\ frame.op = "forward" /\ frame.i = hp.n_flow
    /\ result' = [op |-> frame.name, raised |-> FALSE,
                  args |-> frame.args, out |-> frame.s.x,
                  aux |-> [global_mean |-> frame.s.global_mean,
                           global_logvar |-> frame.s.global_logvar,
                           loss |-> IF frame.name = "loss"
                                    THEN Loss(frame.s.x, frame.s.global_logvar)
                                    ELSE << >>]]
    /\ frame' = IdleFrame
    /\ UNCHANGED << hp, params, instance, ncalls >>

\* "z = torch.randn(...); z = z * temp"
Noise(a) == [t \in 1..Len(a.x) |-> (a.x[t] * a.temp) % FieldP]

\* the locals of an inverse pass: before is (z, c) as the current flow found them
InverseFrame(op, a) ==
    [op |-> op, args |-> a, i |-> 0, z |-> Noise(a), c |-> a.c, before |-> << >>,
     zin |-> << >>, fed |-> << >>, used |-> << >>, prepared |-> << >>]

SynthesizeBegin ==
    /\ CanCall
    /\ \E a \in CallArgs : frame' = InverseFrame("synthesize", a)
    /\ ncalls' = ncalls + 1
    /\ result' = NoResult
    /\ UNCHANGED << hp, params, instance >>

InverseAdvance(r) ==
    IF r.err THEN Raise(frame.op, frame.args, [flow |-> Reversed(frame.i), prepared |-> r.prepared])
    ELSE /\ frame' = [frame EXCEPT !.z = r.z, !.c = r.c, !.i = @ + 1, !.zin = r.zin,
                                   !.before = [z |-> frame.z, c |-> frame.c],
                                   !.fed = r.fed, !.used = r.used, !.prepared = r.prepared]
         /\ UNCHANGED result

\* one flow of synthesize's loop
SynthesizeIter ==
    /\ frame.op = "synthesize" /\ frame.i < hp.n_flow
    /\ InverseAdvance([prepared |-> << >>] @@
                      SynthesizeFlow(frame.z, frame.c, frame.i,
                                     first_conv_padding, initial_conv_padding))
    /\ UNCHANGED << hp, params, instance, ncalls >>

InverseReturn ==
    /\ result' = [op |-> frame.op, raised |-> FALSE, args |-> frame.args,
                  out |-> frame.z, aux |-> << >>]
    /\ frame' = IdleFrame

SynthesizeReturn ==
    /\ frame.op = "synthesize" /\ frame.i = hp.n_flow
    /\ InverseReturn
    /\ UNCHANGED << hp, params, instance, ncalls >>

SynthFastBegin ==
    /\ CanCall
    /\ \E a \in CallArgs : frame' = InverseFrame("synthesize_fast", a)
    /\ ncalls' = ncalls + 1
    /\ result' = NoResult
    /\ UNCHANGED << hp, params, instance >>

SynthFastAdvance(r) ==
    /\ first_conv_padding' = r.first_conv_padding
    /\ initial_conv_padding' = r.initial_conv_padding
    /\ cache' = r.cache
    /\ InverseAdvance(r)

\* one flow of synthesize_fast's loop
SynthFastIter ==
    /\ frame.op = "synthesize_fast" /\ frame.i < hp.n_flow
    /\ SynthFastAdvance(SynthFastFlow(frame.z, frame.c, frame.i, first_conv_padding,
                                      initial_conv_padding, cache, frame.args.shape))
    /\ UNCHANGED << hp, params, ncalls >>

SynthFastReturn ==
    /\ frame.op = "synthesize_fast" /\ frame.i = hp.n_flow
    /\ InverseReturn
    /\ UNCHANGED << hp, params, instance, ncalls >>

\* remove_weight_norm: the weights keep their values
RemoveWeightNorm ==
    /\ CanCall
    /\ result' = [op |-> "remove_weight_norm", raised |-> FALSE, args |-> << >>,
                  out |-> << >>, aux |-> << >>]
    /\ ncalls' = ncalls + 1
    /\ UNCHANGED << hp, params, instance, frame >>

Next ==
    \/ ForwardBegin \/ ForwardIter \/ ForwardReturn
    \/ SynthesizeBegin \/ SynthesizeIter \/ SynthesizeReturn
    \/ SynthFastBegin \/ SynthFastIter \/ SynthFastReturn
    \/ RemoveWeightNorm

Spec == Init /\ [][Next]_vars

---------------------------------------------------------------------------
(* Properties of the public operations *)

NoCaches == [f \in 1..hp.n_flow |-> << >>]

\* the flow an inverse pass has just inverted, from 1
LastFlow == Reversed(frame.i - 1)

SameFlowResult(r) ==
    /\ ~r.err
    /\ r.z = frame.z
    /\ r.fed = frame.fed
    /\ r.used = frame.used

\* C1: synthesize_fast gives what synthesize gives from the same noise, conditioning
\* and temperature: for every flow, the windows each step feeds to each block are the
\* zero-left-padded causal windows of the parallel path, the (mean, logvar) that
\* update each row are the same, and so are the flow's output and the final output.
C1_FastEqualsNaive ==
    /\ (frame.op = "synthesize_fast" /\ frame.i > 0) =>
          SameFlowResult(SynthesizeFlow(frame.before.z, frame.before.c, frame.i - 1,
                                        ConstructionFirstPad, ConstructionBlockPad))
    /\ (result.op = "synthesize_fast" /\ ~result.raised) =>
          result.out = WaveFlow_synthesize(Noise(result.args), result.args.c,
                                           ConstructionFirstPad, ConstructionBlockPad)

\* a streaming flow over 4 rows and 2 blocks has finished, its last step fed the
\* last block a window whose oldest row is not padding, and the flow changed z
C1_Witness ==
    /\ frame.op = "synthesize_fast" /\ frame.i > 0
    /\ hp.h = 4 /\ hp.n_layer = 2
    /\ frame.fed[hp.h][hp.n_layer][1] # 0
    /\ frame.z # frame.zin

\* C2: on a fresh model, forward applied (with the same conditioning) to what
\* synthesize returned gives back the noise synthesize started from.
C2_RoundTrip ==
    (result.op = "synthesize" /\ ~result.raised) =>
        Bind(WaveFlow_forward(result.out, result.args.c,
                              ConstructionFirstPad, ConstructionBlockPad),
             LAMBDA s : ~s.err /\ s.x = Noise(result.args))

\* C4: a synthesize_fast call made after earlier ones gives what the first call on a
\* fresh model gives: every flow's streaming pass feeds the same windows, uses the
\* same (mean, logvar) and returns the same rows as one that starts with no cache.
C4_ResumedEqualsFresh ==
    /\ (frame.op = "synthesize_fast" /\ frame.i > 0) =>
          SameFlowResult(arTransform(Flows[LastFlow], FirstConvPad,
                                     ConstructionBlockPad[LastFlow], << >>,
                                     frame.zin, frame.c, hp.h, frame.args.shape))
    /\ (result.op = "synthesize_fast" /\ ~result.raised) =>
          result.out = WaveFlow_synthesize_fast(Noise(result.args), result.args.c,
                                                ConstructionFirstPad, ConstructionBlockPad,
                                                NoCaches, result.args.shape)

\* a resumed synthesis has inverted a flow whose caches were left by an earlier call
\* with the write cursor away from the start, and the flow changed z
C4_Witness ==
    /\ frame.op = "synthesize_fast" /\ frame.i > 0 /\ ncalls = 2
    /\ \A b \in 1..hp.n_layer : frame.prepared[b].idx # 0
    /\ frame.z # frame.zin

\* C6: in both inverse passes, the permutation applied to z and to c just before
\* inverting flow k undoes the one forward applies just after flow k.
C6_InverseMatchesForward ==
    (frame.op \in {"synthesize", "synthesize_fast"} /\ frame.i > 0) =>
        /\ ForwardPerm(LastFlow - 1, frame.zin) = frame.before.z
        /\ ForwardPerm(LastFlow - 1, frame.c) = frame.before.c

\* the permutations forward applies after flows 0..k-1, applied in that order to v
RECURSIVE ForwardPerms(_, _)
ForwardPerms(k, v) == IF k = 0 THEN v ELSE ForwardPerm(k - 1, ForwardPerms(k - 1, v))

\* exp(logvar) * x + mean, row by row
Affine(logvar, mean, x) ==
    [t \in 1..Len(x) |-> (Exp(At(logvar, t)) * x[t] + At(mean, t)) % FieldP]

\* C7: after forward has processed k >= 1 flows, x is exp(global_logvar) * x_input +
\* global_mean row by row once the permutations applied so far are taken into
\* account: with the pair read in the row order of the input, of the current x,
\* or of the last flow processed.
C7_Composition ==
    (frame.op = "forward" /\ frame.i > 0) =>
        \/ frame.s.x = ForwardPerms(frame.i, Affine(frame.s.global_logvar,
                                                     frame.s.global_mean, frame.args.x))
        \/ frame.s.x = Affine(frame.s.global_logvar, frame.s.global_mean,
                              ForwardPerms(frame.i, frame.args.x))
        \/ frame.s.x = ForwardPerm(frame.i - 1,
                                   Affine(frame.s.global_logvar, frame.s.global_mean,
                                          ForwardPerms(frame.i - 1, frame.args.x)))

\* one cache per block of net, each of the block's receptive length and of the
\* batch and width extents shape
CachesFit(net, cs, shape) ==
    /\ Len(cs) = Len(net.stack)
    /\ \A b \in 1..Len(cs) :
          /\ Len(cs[b].tensor) = (Len(net.stack[b].conv_a) - 1) * net.stack[b].dilation + 1
          /\ cs[b].shape = shape

\* C9: at the start of every streaming sequence the stack holds one cache per block,
\* of the block's receptive length and of the batch and width extents of the
\* current input.
C9_CacheLifecycle ==
    /\ (frame.op = "synthesize_fast" /\ frame.i > 0) =>
          CachesFit(Flows[LastFlow], frame.prepared, frame.args.shape)
    /\ (result.op = "synthesize_fast" /\ result.raised) =>
          CachesFit(Flows[result.aux.flow], result.aux.prepared, result.args.shape)

Streaming(f) ==
    /\ first_conv_padding[f] = 0
    /\ \A b \in 1..hp.n_layer : initial_conv_padding[f][b] = 0

Flowset == 1..hp.n_flow

\* C10: only synthesize_fast changes the padding of a convolution, streaming padding
\* is never put back, after a synthesize_fast call every flow is in streaming
\* padding, and a forward, loss or synthesize made then raises instead of returning.
C10_PaddingOneWay ==
    /\ [](result.op = "synthesize_fast" => \A f \in Flowset : Streaming(f))
    /\ []((result.op \in {"forward", "loss", "synthesize"} /\ \E f \in Flowset : Streaming(f))
            => result.raised)
    /\ [][ /\ (instance' # instance) => frame.op = "synthesize_fast"
           /\ \A f \in Flowset :
                 /\ first_conv_padding[f] = 0 => first_conv_padding'[f] = 0
                 /\ \A b \in 1..hp.n_layer :
                       initial_conv_padding[f][b] = 0 => initial_conv_padding'[f][b] = 0 ]_vars

\* forward was called on an instance that synthesize_fast had used, and raised
C10_Witness ==
    /\ result.op = "forward" /\ result.raised
    /\ \A f \in Flowset : Streaming(f) /\ cache[f] # << >>
---------------------------------------------------------------------------
(* The functions of the module exercised alone: the rest of the state is    *)
(* that of a fresh instance of the smallest configuration and never changes *)

Signals(n) == [1..n -> 0..(NVals - 1)]

SmallestHParams ==
    [kernel_size |-> 3, cycle_size |-> 1, n_layer |-> 1, n_flow |-> 1, h |-> 2]

Fresh ==
    /\ params = 1
    /\ first_conv_padding = ConstructionFirstPad
    /\ initial_conv_padding = ConstructionBlockPad
    /\ cache = NoCaches
    /\ result = NoResult
    /\ ncalls = 0

Rest == << hp, params, instance, result, ncalls >>

(* full_flip and half_flip, each applied up to twice to a signal x *)

FlipInit ==
    /\ hp = SmallestHParams
    /\ Fresh
    /\ \E n \in 0..MaxLen : \E x \in Signals(n) :
          frame = [op |-> "flips", x |-> x, y |-> x, f |-> "none", n |-> 0]

CanFlip(f) == frame.n < 2 /\ frame.f \in {"none", f} /\ ~IsErr(frame.y)

FullFlipCall ==
    /\ CanFlip("full_flip")
    /\ frame' = [frame EXCEPT !.y = full_flip(@), !.f = "full_flip", !.n = @ + 1]
    /\ UNCHANGED Rest

HalfFlipCall ==
    /\ CanFlip("half_flip")
    /\ frame' = [frame EXCEPT !.y = half_flip(@), !.f = "half_flip", !.n = @ + 1]
    /\ UNCHANGED Rest

FlipNext == FullFlipCall \/ HalfFlipCall

SpecFlip == FlipInit /\ [][FlipNext]_vars

\* C3: for a signal of any length, neither flip fails and each applied twice gives
\* the signal back.
C3_Involution ==
    /\ ~IsErr(frame.y)
    /\ frame.n = 2 => frame.y = frame.x

EvenLength(x) == Len(x) >= 2 /\ Len(x) % 2 = 0

\* C3, amended: full_flip never fails and applied twice gives the signal back, for
\* any length; half_flip does so when the time axis has an even length of at
\* least 2, and raises for every other length.
C3_InvolutionEven ==
    /\ frame.f = "full_flip" => C3_Involution
    /\ (frame.f = "half_flip" /\ EvenLength(frame.x)) => C3_Involution
    /\ (frame.f = "half_flip" /\ ~EvenLength(frame.x)) => IsErr(frame.y)

\* half_flip applied twice to 4 rows that one application changes
C3_Witness ==
    /\ frame.f = "half_flip" /\ frame.n = 2
    /\ Len(frame.x) = 4
    /\ half_flip(frame.x) # frame.x
    /\ frame.y = frame.x

(* One cache of a streaming stack: pushes, each followed by a read, and the *)
(* zeroing that starts a new sequence                                       *)

CacheInit ==
    /\ hp = SmallestHParams
    /\ Fresh
    /\ \E R \in 1..MaxRF :
          frame = [op |-> "cache", ct |-> CircularTensor(Zeros(R), [b |-> 1, w |-> 1]),
                   pushed |-> << >>, win |-> << >>]

CachePush ==
    /\ Len(frame.pushed) < MaxPush
    /\ \E v \in 1..NVals :
          frame' = [frame EXCEPT !.ct = PushRead(frame.ct, v).ct,
                                 !.win = PushRead(frame.ct, v).res,
                                 !.pushed = Append(@, v)]
    /\ UNCHANGED Rest

CacheReset ==
    /\ frame.pushed # << >>
    /\ frame' = [frame EXCEPT !.ct = ResetCache(<< frame.ct >>)[1],
                              !.win = << >>, !.pushed = << >>]
    /\ UNCHANGED Rest

CacheNext == CachePush \/ CacheReset

SpecCache == CacheInit /\ [][CacheNext]_vars

\* the last R of the rows pushed, oldest first, zeros on the left while fewer than R
LastPushed(pushed, R) ==
    [j \in 1..R |-> IF Len(pushed) - R + j >= 1 THEN pushed[Len(pushed) - R + j] ELSE 0]

\* C5: in a fresh or re-zeroed sequence, the window read right after the n-th push
\* is the last min(n, receptive_field) rows pushed, oldest first, zero-padded on the
\* left; the newest row is its last row.
C5_Window ==
    frame.pushed # << >> =>
        /\ frame.win = LastPushed(frame.pushed, Len(frame.ct.tensor))
        /\ frame.win[Len(frame.win)] = frame.pushed[Len(frame.pushed)]

\* receptive_field 4, rows a,b,c,d,e pushed after a re-zeroing that left the
\* cursor away from the start: the window is b,c,d,e
C5_Witness ==
    /\ Len(frame.ct.tensor) = 4
    /\ frame.pushed = << 1, 2, 3, 1, 2 >>
    /\ frame.win = << 2, 3, 1, 2 >>
    /\ frame.ct.idx = 3

(* The parallel evaluation on two signals x and y that agree on the rows    *)
(* before row t0 and differ on every row from t0 on                         *)

CausalInit ==
    /\ hp \in { [p EXCEPT !.kernel_size = k] :
                    p \in {q \in HParams : q.n_flow = 1 /\ q.h = 2},
                    k \in {j \in 3..MaxKernelAlone : j % 2 = 1} }
    /\ Fresh
    /\ \E x \in Signals(MaxH), t0 \in 1..MaxH :
          frame = [op |-> "causal", x |-> x, t0 |-> t0,
                   y |-> [t \in 1..MaxH |-> IF t < t0 THEN x[t] ELSE (x[t] + 1) % FieldP],
                   c |-> Arg(1, MaxH).c, on |-> "none", ox |-> << >>, oy |-> << >>]

\* one ResidualBlock.forward on each signal
CausalBlock ==
    /\ frame.on = "none"
    /\ \E b \in 1..hp.n_layer :
          frame' = [frame EXCEPT
                      !.on = "block",
                      !.ox = ResidualBlock_forward(Flows[1].stack[b], ConstructionBlockPad[1][b],
                                                   frame.x, frame.c, FALSE),
                      !.oy = ResidualBlock_forward(Flows[1].stack[b], ConstructionBlockPad[1][b],
                                                   frame.y, frame.c, FALSE)]
    /\ UNCHANGED Rest

\* one ResidualStack.forward on each signal
CausalStack ==
    /\ frame.on = "none"
    /\ frame' = [frame EXCEPT
                   !.on = "stack",
                   !.ox = ResidualStack_forward(Flows[1], FirstConvPad, ConstructionBlockPad[1],
                                                frame.x, frame.c),
                   !.oy = ResidualStack_forward(Flows[1], FirstConvPad, ConstructionBlockPad[1],
                                                frame.y, frame.c)]
    /\ UNCHANGED Rest

CausalNext == CausalBlock \/ CausalStack

SpecCausal == CausalInit /\ [][CausalNext]_vars

SameRows(a, b, n) == Len(a) = MaxH /\ Len(b) = MaxH /\ \A t \in 1..n : a[t] = b[t]

\* C8: in parallel evaluation a block's output at row t depends only on its input
\* rows <= t, and the stack's (mean, logvar) at row t only on signal rows < t: two
\* signals that agree before row t0 give the same block rows before t0 and the same
\* (mean, logvar) up to and including row t0.
C8_Causal ==
    /\ frame.on = "block" =>
          /\ SameRows(frame.ox.res, frame.oy.res, frame.t0 - 1)
          /\ SameRows(frame.ox.skp, frame.oy.skp, frame.t0 - 1)
    /\ frame.on = "stack" =>
          /\ SameRows(frame.ox.mean, frame.oy.mean, frame.t0)
          /\ SameRows(frame.ox.logvar, frame.oy.logvar, frame.t0)

\* a stack of 2 blocks evaluated on two signals that first differ at row t0: the
\* mean of the row after t0 differs
C8_Witness ==
    /\ frame.on = "stack" /\ hp.n_layer = 2
    /\ frame.t0 < MaxH
    /\ frame.ox.mean[frame.t0 + 1] # frame.oy.mean[frame.t0 + 1]
====
